---- MODULE Spec2Model ----
(***************************************************************************)
(* A model of deoxys-test (src/src/main.rs): a driver that accumulates the *)
(* storage diffs of one contract over a range of blocks and, after every   *)
(* block that touches the contract, computes the contract's storage root   *)
(* with two trie engines (bonsai-trie and pathfinder's merkle tree) and    *)
(* asserts that the two roots agree.                                       *)
(*                                                                         *)
(* Field elements are integers below Prime.  Hashes are symbolic terms:    *)
(* <<"V", v>> is the felt v, <<"B", l, r>> the Pedersen hash of a binary   *)
(* node and <<"E", c, p>> the hash of an edge node with path p, so that    *)
(* two hashes are equal exactly when they were computed from the same      *)
(* content (a collision-free hash).                                        *)
(***************************************************************************)
EXTENDS Integers, Sequences, FiniteSets, TLC

(***************************************************************************)
(* Bounds of the model.  Depth stands for the tree height 251 and Drop for *)
(* the 5 leading bits cut from the 256-bit key.                            *)
(***************************************************************************)
Depth == 2
Drop == 2
MaxVal == 1

RECURSIVE Pow2(_)
Pow2(n) == IF n = 0 THEN 1 ELSE 2 * Pow2(n - 1)

\* The width of FieldElement::to_bytes_be(), in bits (256 in the program).
KeyBits == Depth + Drop

\* The field's modulus: like the Stark prime it lies just above 2^Depth, so
\* a field element may have the lowest of the dropped bits set.
Prime == Pow2(Depth) + 1

FieldElement == 0 .. (Prime - 1)
Values == 0 .. MaxVal

(***************************************************************************)
(* Maps (HashMap) as functions.                                            *)
(***************************************************************************)
EmptyMap == << >>

MapPut(m, k, v) == [x \in (DOMAIN m) \cup {k} |-> IF x = k THEN v ELSE m[x]]

\* HashMap::extend: every entry of new is inserted, replacing an old one.
MapExtend(old, new) ==
    [x \in (DOMAIN old) \cup (DOMAIN new) |-> IF x \in DOMAIN new THEN new[x] ELSE old[x]]

(***************************************************************************)
(* Key and value encoding.                                                 *)
(***************************************************************************)
\* to_bytes_be().view_bits::<Msb0>(): the bits of x, most significant first.
ToBitsBe(x) == [j \in 1 .. KeyBits |-> (x \div Pow2(KeyBits - j)) % 2]

\* The slice taken from the wrong end: [..251].
KeyPathHead(key) == SubSeq(ToBitsBe(key), 1, Depth)

\* The bits read least significant first (view_bits::<Lsb0>).
KeyPathLsb(key) == [j \in 1 .. Depth |-> (key \div Pow2(j - 1)) % 2]

\* key.to_bytes_be().view_bits()[5..].to_owned()
KeyPath(key) == SubSeq(ToBitsBe(key), Drop + 1, KeyBits)

RECURSIVE BitsToInt(_)
BitsToInt(bits) ==
    IF bits = << >> THEN 0
    ELSE 2 * BitsToInt(SubSeq(bits, 1, Len(bits) - 1)) + bits[Len(bits)]

\* Felt::from_bytes_be(&value.to_bytes_be()): the value read back, reduced
\* into the field.
BonsaiValue(value) == BitsToInt(ToBitsBe(value)) % Prime

\* PathfinderFelt::from_be_slice(&value.to_bytes_be()): an error (and the
\* unwrap panics) when the bytes are not below the modulus.
PathfinderValue(value) ==
    LET n == BitsToInt(ToBitsBe(value))
    IN  IF n < Prime THEN [ok |-> TRUE, felt |-> n] ELSE [ok |-> FALSE, felt |-> 0]

(***************************************************************************)
(* The in-memory tree: MerkleTree<PedersenHash, 251>.  root is NoRoot      *)
(* (None) or a node; leaves maps a full path to the value set for it.      *)
(***************************************************************************)
NoRoot == [kind |-> "None"]
Leaf == [kind |-> "Leaf"]
BinaryNode(l, r) == [kind |-> "Binary", left |-> l, right |-> r]
EdgeNode(p, c) == [kind |-> "Edge", path |-> p, child |-> c]

EmptyTree == [root |-> NoRoot, leaves |-> EmptyMap]

RECURSIVE CommonLen(_, _)
CommonLen(p, q) ==
    IF p = << >> \/ q = << >> \/ Head(p) # Head(q) THEN 0
    ELSE 1 + CommonLen(Tail(p), Tail(q))

Suffix(p, from) == SubSeq(p, from, Len(p))

\* The branch that leads to a new leaf along the bits that remain.
NewBranch(rest) == IF rest = << >> THEN Leaf ELSE EdgeNode(rest, Leaf)

\* An edge is split where the key leaves its path: a binary node at the
\* point of divergence, the old remainder on one side, the new leaf on the
\* other, below the common prefix (when there is one).
SplitEdge(node, path) ==
    LET c       == CommonLen(node.path, path)
        oldRest == Suffix(node.path, c + 2)
        old     == IF oldRest = << >> THEN node.child ELSE EdgeNode(oldRest, node.child)
        new     == NewBranch(Suffix(path, c + 2))
        bin     == IF path[c + 1] = 0 THEN BinaryNode(new, old) ELSE BinaryNode(old, new)
    IN  IF c = 0 THEN bin ELSE EdgeNode(SubSeq(path, 1, c), bin)

RECURSIVE SetNode(_, _)
SetNode(node, path) ==
    CASE node.kind = "None" -> NewBranch(path)
      [] node.kind = "Leaf" -> node
      [] node.kind = "Binary" ->
            IF Head(path) = 0
            THEN BinaryNode(SetNode(node.left, Tail(path)), node.right)
            ELSE BinaryNode(node.left, SetNode(node.right, Tail(path)))
      [] node.kind = "Edge" ->
            IF CommonLen(node.path, path) = Len(node.path)
            THEN EdgeNode(node.path, SetNode(node.child, Suffix(path, Len(node.path) + 1)))
            ELSE SplitEdge(node, path)

\* MerkleTree::set(storage, key, value)
TreeSet(t, path, value) ==
    [root |-> SetNode(t.root, path), leaves |-> MapPut(t.leaves, path, value)]

\* Whether the nodes lead from node to a leaf along path.
RECURSIVE ReachesLeaf(_, _)
ReachesLeaf(node, path) ==
    CASE node.kind = "None" -> FALSE
      [] node.kind = "Leaf" -> path = << >>
      [] node.kind = "Binary" ->
            /\ path # << >>
            /\ ReachesLeaf(IF Head(path) = 0 THEN node.left ELSE node.right, Tail(path))
      [] node.kind = "Edge" ->
            /\ Len(path) >= Len(node.path)
            /\ SubSeq(path, 1, Len(node.path)) = node.path
            /\ ReachesLeaf(node.child, Suffix(path, Len(node.path) + 1))

\* MerkleTree::get(storage, key): the value the tree resolves the path to.
TreeGet(t, path) ==
    IF ReachesLeaf(t.root, path) /\ path \in DOMAIN t.leaves
    THEN [some |-> TRUE, val |-> t.leaves[path]]
    ELSE [some |-> FALSE]

(***************************************************************************)
(* Hashing and MerkleTree::commit.                                         *)
(***************************************************************************)
FeltHash(v) == <<"V", v>>
BinaryHash(l, r) == <<"B", l, r>>
EdgeHash(c, p) == <<"E", c, p>>
ZeroHash == FeltHash(0)

ChildHash(h) == [ref |-> "Hash", hash |-> h]
ChildId(idx) == [ref |-> "Id", idx |-> idx]

\* The hash of the subtree at node, reached along path, and the nodes the
\* commit adds for it, keyed by hash.
RECURSIVE CommitSubtree(_, _, _)
CommitSubtree(node, path, leaves) ==
    CASE node.kind = "Leaf" -> [hash |-> FeltHash(leaves[path]), added |-> EmptyMap]
      [] node.kind = "Binary" ->
            LET l == CommitSubtree(node.left, Append(path, 0), leaves)
                r == CommitSubtree(node.right, Append(path, 1), leaves)
                h == BinaryHash(l.hash, r.hash)
                n == IF node.left.kind = "Leaf" /\ node.right.kind = "Leaf"
                     THEN [kind |-> "LeafBinary"]
                     ELSE [kind |-> "Binary", left |-> ChildHash(l.hash),
                           right |-> ChildHash(r.hash)]
            IN  [hash |-> h, added |-> MapPut(MapExtend(l.added, r.added), h, n)]
      [] node.kind = "Edge" ->
            LET c == CommitSubtree(node.child, path \o node.path, leaves)
                h == EdgeHash(c.hash, node.path)
                n == IF node.child.kind = "Leaf"
                     THEN [kind |-> "LeafEdge", path |-> node.path]
                     ELSE [kind |-> "Edge", child |-> ChildHash(c.hash), path |-> node.path]
            IN  [hash |-> h, added |-> MapPut(c.added, h, n)]

\* MerkleTree::commit(storage): the TrieUpdate {nodes, root}.
TreeCommit(t) ==
    IF t.root.kind = "None" THEN [nodes |-> EmptyMap, root |-> ZeroHash]
    ELSE LET c == CommitSubtree(t.root, << >>, t.leaves)
         IN  [nodes |-> c.added, root |-> c.hash]

(***************************************************************************)
(* BonsaiStorage: what was inserted under IDENTIFIER, and the root of the  *)
(* trie over it.  The root is the trie's definition read off the final     *)
(* mapping: a binary node where the keys below a prefix take both bits, an *)
(* edge along the bits they share, the value at depth Depth.               *)
(***************************************************************************)
BonsaiInsert(b, path, value) == MapPut(b, path, value)

\* The number of leading bits, from position from on, shared by all of S.
RECURSIVE SharedLen(_, _)
SharedLen(S, from) ==
    IF from > Depth \/ \E p, q \in S : p[from] # q[from] THEN 0
    ELSE 1 + SharedLen(S, from + 1)

RECURSIVE SubtreeHash(_, _, _)
SubtreeHash(b, S, height) ==
    LET any == CHOOSE p \in S : TRUE
        n   == SharedLen(S, height + 1)
    IN  IF height = Depth THEN FeltHash(b[any])
        ELSE IF n = 0
        THEN BinaryHash(SubtreeHash(b, {p \in S : p[height + 1] = 0}, height + 1),
                        SubtreeHash(b, {p \in S : p[height + 1] = 1}, height + 1))
        ELSE EdgeHash(SubtreeHash(b, S, height + n), SubSeq(any, height + 1, height + n))

\* commit, then root_hash(IDENTIFIER)
BonsaiRootHash(b) ==
    IF DOMAIN b = {} THEN ZeroHash ELSE SubtreeHash(b, DOMAIN b, 0)

(***************************************************************************)
(* TestStorage and commit_and_persist.                                     *)
(***************************************************************************)
EmptyStorage == [nodes |-> EmptyMap, leaves |-> EmptyMap]

RECURSIVE Orders(_)
Orders(S) ==
    IF S = {} THEN {<< >>}
    ELSE UNION {{<<x>> \o o : o \in Orders(S \ {x})} : x \in S}

\* for (key, value) in &tree.leaves: storage.leaves.insert(from_bits(key), value)
PersistLeaves(leaves, old) ==
    [f \in (DOMAIN old) \cup {BitsToInt(p) : p \in DOMAIN leaves} |->
        IF \E p \in DOMAIN leaves : BitsToInt(p) = f
        THEN leaves[CHOOSE p \in DOMAIN leaves : BitsToInt(p) = f]
        ELSE old[f]]

\* The indices counted from 0 at every commit.
FirstIndexZero(st) == 0

\* let mut idx = storage.nodes.len();
FirstIndex(st) == Cardinality(DOMAIN st.nodes)

\* The index never advanced (idx += 1 left out).
AssignIndicesSame(order, first) == [h \in {order[j] : j \in 1 .. Len(order)} |-> first]

\* indices: each hash of the update, in the order keys() yields them, gets
\* the next index.
AssignIndices(order, first) ==
    [h \in {order[j] : j \in 1 .. Len(order)} |->
        first + (CHOOSE j \in 1 .. Len(order) : order[j] = h) - 1]

Resolved(child, indices) == child.ref = "Id" \/ child.hash \in DOMAIN indices

\* The index after the one the hash was given.
ResolveNext(child, indices) == IF child.ref = "Id" THEN child.idx ELSE indices[child.hash] + 1

Resolve(child, indices) == IF child.ref = "Id" THEN child.idx ELSE indices[child.hash]

\* Whether every child of the node that is given by hash has an index.
Resolvable(node, indices) ==
    CASE node.kind = "Binary" -> Resolved(node.left, indices) /\ Resolved(node.right, indices)
      [] node.kind = "Edge" -> Resolved(node.child, indices)
      [] OTHER -> TRUE

\* The conversion with the paths left behind.
StoredNodeNoPath(node, indices) ==
    CASE node.kind = "Binary" ->
            [kind |-> "Binary", left |-> Resolve(node.left, indices),
             right |-> Resolve(node.right, indices)]
      [] node.kind = "Edge" ->
            [kind |-> "Edge", child |-> Resolve(node.child, indices), path |-> << >>]
      [] node.kind = "LeafEdge" -> [kind |-> "LeafEdge", path |-> << >>]
      [] OTHER -> node

StoredNode(node, indices) ==
    CASE node.kind = "Binary" ->
            [kind |-> "Binary", left |-> Resolve(node.left, indices),
             right |-> Resolve(node.right, indices)]
      [] node.kind = "Edge" ->
            [kind |-> "Edge", child |-> Resolve(node.child, indices), path |-> node.path]
      [] OTHER -> node

\* storage.nodes.insert(index, (hash, node)) for the hashes in done.
InsertNodes(nodes, update, indices, done) ==
    [x \in (DOMAIN nodes) \cup {indices[h] : h \in done} |->
        IF \E h \in done : indices[h] = x
        THEN LET h == CHOOSE h \in done : indices[h] = x
             IN  [hash |-> h, node |-> StoredNode(update.nodes[h], indices)]
        ELSE nodes[x]]

\* The index assigned last (idx - 1 after the loop).
RootIndexLast(update, indices) ==
    CHOOSE x \in {indices[h] : h \in DOMAIN indices} :
        \A h \in DOMAIN indices : indices[h] <= x

\* let index = *indices.get(&update.root).unwrap();
RootIndex(update, indices) == indices[update.root]

\* Lines 186-231 on a TrieUpdate: order is the order in which the update's
\* hashes are enumerated.  A child hash without index panics (expect) in
\* the loop over the nodes, after the nodes in some set early of the others
\* were stored; a root without index panics at the final unwrap.
PersistUpdate(update, st, order, early) ==
    LET indices == AssignIndices(order, FirstIndex(st))
        all     == DOMAIN update.nodes
        bad     == {h \in all : ~Resolvable(update.nodes[h], indices)}
    IN  IF bad # {}
        THEN [storage |-> [st EXCEPT !.nodes = InsertNodes(st.nodes, update, indices, early)],
              result  |-> [status |-> "panic", at |-> "child"]]
        ELSE IF update.root \notin all
        THEN [storage |-> [st EXCEPT !.nodes = InsertNodes(st.nodes, update, indices, all)],
              result  |-> [status |-> "panic", at |-> "root"]]
        ELSE [storage |-> [st EXCEPT !.nodes = InsertNodes(st.nodes, update, indices, all)],
              result  |-> [status |-> "ok", root |-> update.root,
                           index |-> RootIndex(update, indices)]]

\* The sets of nodes that may have been stored when the loop panics (no
\* choice when it does not).
EarlySets(update, st, order) ==
    LET indices == AssignIndices(order, FirstIndex(st))
        good    == {h \in DOMAIN update.nodes : Resolvable(update.nodes[h], indices)}
    IN  IF good = DOMAIN update.nodes THEN {{}} ELSE SUBSET good

\* commit_and_persist(tree, storage)
CommitAndPersist(t, st, order, early) ==
    PersistUpdate(TreeCommit(t), [st EXCEPT !.leaves = PersistLeaves(t.leaves, st.leaves)],
                  order, early)

\* Some enumeration of S.
RECURSIVE SomeOrder(_)
SomeOrder(S) ==
    IF S = {} THEN << >>
    ELSE LET x == CHOOSE y \in S : TRUE IN <<x>> \o SomeOrder(S \ {x})

\* The keys of S from the smallest to the largest.
RECURSIVE Ascending(_)
Ascending(S) ==
    IF S = {} THEN << >>
    ELSE LET x == CHOOSE y \in S : \A z \in S : y <= z IN <<x>> \o Ascending(S \ {x})

NoHash == <<"None">>

\* The root commit_and_persist returns for the tree committed into a fresh
\* storage (it does not depend on the order of the indices), or NoHash when
\* the call panics.
PathfinderRootOf(t) ==
    LET r == CommitAndPersist(t, EmptyStorage, SomeOrder(DOMAIN TreeCommit(t).nodes), {}).result
    IN  IF r.status = "ok" THEN r.root ELSE NoHash

(***************************************************************************)
(* The program's state.                                                    *)
(*   pc, i, retries, state_update: main's position, its block, the retry   *)
(*     counter of get_state_update and the state update it returned;       *)
(*   contract_storage: CONTRACT_STORAGE's entry for the contract;          *)
(*   iter_order: the order in which the map's iterator yields its keys;    *)
(*   bonsai_root, pathfinder_root: the two roots of the current block;     *)
(*   tree, bonsai, storage, result: the pathfinder tree, the bonsai        *)
(*     storage, the TestStorage and what commit_and_persist returned.      *)
(* History: attempts (fetches made for the block), nsets (entries set),    *)
(* fed (last value set per key), repeated (a key was set twice), before    *)
(* and last_key (the tree before the last set and its key), again (the     *)
(* last set was to the key of the set before it), ncommits and committed   *)
(* (the commits made and the tree of the last one), update (a TrieUpdate   *)
(* to persist), acc (the diffs main has saved so far, merged key by key).  *)
(* Concurrent callers of the three async functions:                        *)
(*   task: each caller's position and locals; outer: the RwLock of         *)
(*   CONTRACT_STORAGE; inner: the RwLock of the contract's map; applied    *)
(*   (history): the batches in the order their writers got the outer lock. *)
(***************************************************************************)
VARIABLES pc, i, retries, attempts, state_update, contract_storage, iter_order,
          bonsai_root, pathfinder_root,
          tree, bonsai, nsets, fed, repeated, before, last_key, again,
          storage, result, ncommits, committed, update,
          acc, task, outer, inner, applied

mainvars == <<pc, i, retries, attempts, state_update, contract_storage, iter_order,
              bonsai_root, pathfinder_root, acc>>
trievars == <<tree, bonsai, nsets, fed, repeated, before, last_key, again>>
commitvars == <<storage, result, ncommits, committed, update>>
lockvars == <<task, outer, inner, applied>>
vars == <<mainvars, trievars, commitvars, lockvars>>

None == [some |-> FALSE]
Some(x) == [some |-> TRUE, val |-> x]
NoResult == [status |-> "none"]

MainIdle ==
    /\ pc = "idle" /\ i = 0 /\ retries = 0 /\ attempts = 0
    /\ state_update = None /\ contract_storage = None /\ iter_order = << >>
    /\ bonsai_root = NoHash /\ pathfinder_root = NoHash /\ acc = None

TrieIdle ==
    /\ tree = EmptyTree /\ bonsai = EmptyMap /\ nsets = 0 /\ fed = EmptyMap
    /\ repeated = FALSE /\ before = EmptyTree /\ last_key = None /\ again = FALSE

CommitIdle ==
    /\ storage = EmptyStorage /\ result = NoResult /\ ncommits = 0
    /\ committed = None /\ update = None

(***************************************************************************)
(* tokio::sync::RwLock: one writer or any number of readers, and the tasks *)
(* that wait, served first come first.                                     *)
(***************************************************************************)
Writers == {"save_a", "save_b"}
Readers == {"bonsai", "pathfinder"}
Tasks == Writers \cup Readers

NoTask == "none"
FreeLock == [w |-> NoTask, r |-> {}, q |-> << >>]

\* A call of read() or write() that has to wait joins the queue.
Enqueue(lock, t, mode) == [lock EXCEPT !.q = Append(@, [task |-> t, mode |-> mode])]

\* The task at the head of the queue gets the lock when no writer holds it
\* and, for a writer, no reader either.
CanGrant(lock, t) ==
    /\ lock.q # << >>
    /\ Head(lock.q).task = t
    /\ lock.w = NoTask
    /\ Head(lock.q).mode = "write" => lock.r = {}

Grant(lock, t) ==
    IF Head(lock.q).mode = "write"
    THEN [lock EXCEPT !.w = t, !.q = Tail(@)]
    ELSE [lock EXCEPT !.r = @ \cup {t}, !.q = Tail(@)]

\* The guard is dropped.
Release(lock, t) == [lock EXCEPT !.w = IF @ = t THEN NoTask ELSE @, !.r = @ \ {t}]

IdleTask == [pc |-> "start", new |-> EmptyMap, pending |-> {}, seen |-> EmptyMap]

LockIdle ==
    /\ task = [t \in Tasks |-> IdleTask]
    /\ outer = FreeLock /\ inner = FreeLock /\ applied = << >>

(***************************************************************************)
(* The two insert loops, one entry at a time.                              *)
(***************************************************************************)
MaxSets == 3

\* The key's bits taken least significant first (view_bits::<Lsb0>).
BonsaiInsertEntryLsb(b, key, value) ==
    LET p == KeyPath(key)
    IN  BonsaiInsert(b, [j \in 1 .. Len(p) |-> p[Len(p) + 1 - j]], BonsaiValue(value))

\* Lines 130-135: one entry of the map inserted into the bonsai storage.
BonsaiInsertEntry(b, key, value) == BonsaiInsert(b, KeyPath(key), BonsaiValue(value))

\* A set skipped when the tree already has a leaf at the key's path.
PathfinderSetEntryKeepFirst(t, key, value) ==
    IF KeyPath(key) \in DOMAIN t.leaves THEN t
    ELSE TreeSet(t, KeyPath(key), PathfinderValue(value).felt)

\* The entry set in a tree created anew for it.
PathfinderSetEntryFresh(t, key, value) ==
    TreeSet(EmptyTree, KeyPath(key), PathfinderValue(value).felt)

\* Lines 156-165: one entry of the map set in the pathfinder tree.
PathfinderSetEntry(t, key, value) == TreeSet(t, KeyPath(key), PathfinderValue(value).felt)

\* Both loops fed the entry (key, value).
SetEntry(key, value) ==
    /\ nsets < MaxSets
    /\ nsets' = nsets + 1
    /\ PathfinderValue(value).ok
    /\ tree' = PathfinderSetEntry(tree, key, value)
    /\ bonsai' = BonsaiInsertEntry(bonsai, key, value)
    /\ fed' = MapPut(fed, key, value)
    /\ repeated' = (repeated \/ key \in DOMAIN fed)
    /\ before' = tree
    /\ last_key' = Some(key)
    /\ again' = (last_key = Some(key))

TrieInit == MainIdle /\ TrieIdle /\ CommitIdle /\ LockIdle

TrieNext ==
    /\ \E key \in FieldElement, value \in Values : SetEntry(key, value)
    /\ UNCHANGED <<mainvars, commitvars, lockvars>>

SpecTrie == TrieInit /\ [][TrieNext]_vars

(***************************************************************************)
(* Trees set and committed into one storage, any number of times.          *)
(***************************************************************************)
MaxCommitSets == 2
MaxNodes == 4

\* tree.set on the tree that is committed later.
CommitSet(key, value) ==
    /\ result.status # "panic"
    /\ nsets < MaxCommitSets
    /\ nsets' = nsets + 1
    /\ tree' = PathfinderSetEntry(tree, key, value)
    /\ UNCHANGED <<bonsai, fed, repeated, before, last_key, again>>
    /\ UNCHANGED <<mainvars, commitvars, lockvars>>

\* commit_and_persist(tree.clone(), &mut storage)
Commit ==
    /\ result.status # "panic"
    /\ FirstIndex(storage) + Cardinality(DOMAIN TreeCommit(tree).nodes) <= MaxNodes
    /\ \E order \in Orders(DOMAIN TreeCommit(tree).nodes) :
         \E early \in EarlySets(TreeCommit(tree), storage, order) :
            LET r == CommitAndPersist(tree, storage, order, early)
            IN  /\ storage' = r.storage
                /\ result' = r.result
    /\ ncommits' = ncommits + 1
    /\ committed' = tree
    /\ UNCHANGED update
    /\ UNCHANGED <<mainvars, trievars, lockvars>>

CommitInit == MainIdle /\ TrieIdle /\ CommitIdle /\ LockIdle

CommitNext ==
    \/ \E key \in FieldElement, value \in Values : CommitSet(key, value)
    \/ Commit

SpecCommit == CommitInit /\ [][CommitNext]_vars

(***************************************************************************)
(* main: the loop over the blocks.                                         *)
(***************************************************************************)
\* block_range = 190..500, cut to NumBlocks blocks.
BlockStart == 190
NumBlocks == 2
BlockEnd == BlockStart + NumBlocks

\* let mut retries = 15;
Retries == 15

\* The diffs a state update may carry for the contract: at most MaxBatch
\* writes, to two keys with different paths and to the key whose path is
\* that of key 0.
MaxBatch == 2
WatchedKeys == {0, 1, Pow2(Depth)}
StorageDiff == [key : WatchedKeys, value : Values]

RECURSIVE SeqsUpTo(_, _)
SeqsUpTo(S, n) ==
    IF n = 0 THEN {<< >>}
    ELSE LET shorter == SeqsUpTo(S, n - 1)
         IN  shorter \cup {Append(q, x) : q \in {r \in shorter : Len(r) = n - 1}, x \in S}

\* What state_update.state_diff.storage_diffs may hold for the contract.
StorageDiffs == SeqsUpTo(StorageDiff, MaxBatch)

\* storage_updates.iter().map(..).collect(): a later diff of a key replaces
\* an earlier one.
RECURSIVE Collect(_)
Collect(diffs) ==
    IF diffs = << >> THEN EmptyMap
    ELSE LET last == diffs[Len(diffs)]
         IN  MapPut(Collect(SubSeq(diffs, 1, Len(diffs) - 1)), last.key, last.value)

\* The diffs saved so far with storage_updates after them, merged key by
\* key: a key written by storage_updates has the value of its last write
\* there, any other key the value it had.
Merged(old, storage_updates) ==
    LET prev    == IF old.some THEN old.val ELSE EmptyMap
        n       == Len(storage_updates)
        written == {storage_updates[j].key : j \in 1 .. n}
        last(k) == CHOOSE j \in 1 .. n :
                      /\ storage_updates[j].key = k
                      /\ \A l \in (j + 1) .. n : storage_updates[l].key # k
    IN  Some([k \in (DOMAIN prev) \cup written |->
                IF k \in written THEN storage_updates[last(k)].value ELSE prev[k]])

\* An extend that keeps the values the map already holds.
SavedStorageKeepOld(old, storage_updates) ==
    IF old.some THEN Some(MapExtend(Collect(storage_updates), old.val))
    ELSE Some(Collect(storage_updates))

\* The map replaced by the batch.
SavedStorageReplace(old, storage_updates) == Some(Collect(storage_updates))

\* save_storage_update: the contract's map after the call.
SavedStorage(old, storage_updates) ==
    IF old.some THEN Some(MapExtend(old.val, Collect(storage_updates)))
    ELSE Some(Collect(storage_updates))

\* Lines 127-136: the bonsai storage after the loop over the map.
RECURSIVE BonsaiInsertAll(_, _, _)
BonsaiInsertAll(b, cs, order) ==
    IF order = << >> THEN b
    ELSE BonsaiInsertAll(BonsaiInsertEntry(b, Head(order), cs[Head(order)]), cs, Tail(order))

\* bonsai_storage_root
BonsaiStorageRoot(cs, order) == BonsaiRootHash(BonsaiInsertAll(EmptyMap, cs, order))

\* Lines 154-166: the tree after the loop over the map.
RECURSIVE PathfinderSetAll(_, _, _)
PathfinderSetAll(t, cs, order) ==
    IF order = << >> THEN t
    ELSE PathfinderSetAll(PathfinderSetEntry(t, Head(order), cs[Head(order)]), cs, Tail(order))

\* pathfinder_storage_root: what commit_and_persist returns for the tree of
\* the map, with a fresh storage; a value outside the field panics before.
PathfinderStorageRoot(cs, order, norder, early) ==
    IF \E k \in DOMAIN cs : ~PathfinderValue(cs[k]).ok
    THEN [status |-> "panic", at |-> "value"]
    ELSE CommitAndPersist(PathfinderSetAll(EmptyTree, cs, order), EmptyStorage,
                          norder, early).result

\* for i in block_range: the next block's get_state_update begins, or the
\* range is exhausted and main returns.
ForNext ==
    /\ pc = "loop"
    /\ IF i < BlockEnd
       THEN /\ pc' = "fetch"
            /\ retries' = Retries
       ELSE /\ pc' = "done"
            /\ UNCHANGED retries
    /\ UNCHANGED <<i, attempts, state_update, contract_storage, acc, iter_order, bonsai_root,
                   pathfinder_root>>
    /\ UNCHANGED <<trievars, commitvars, lockvars>>

\* One pass of the while loop whose provider call succeeds: the state
\* update is returned.  (Its content is drawn where main reads it.)
FetchOk ==
    /\ pc = "fetch"
    /\ retries > 0
    /\ attempts' = attempts + 1
    /\ pc' = "got"
    /\ UNCHANGED <<i, retries, state_update, contract_storage, acc, iter_order, bonsai_root,
                   pathfinder_root>>
    /\ UNCHANGED <<trievars, commitvars, lockvars>>

\* The loop entered once more at retries = 0 (while retries >= 0).
FetchErrOffByOne ==
    /\ pc = "fetch"
    /\ retries >= 0
    /\ attempts' = attempts + 1
    /\ retries' = retries - 1
    /\ UNCHANGED <<pc, i, state_update, contract_storage, acc, iter_order, bonsai_root,
                   pathfinder_root>>
    /\ UNCHANGED <<trievars, commitvars, lockvars>>

\* One pass whose provider call fails: retries -= 1, then the sleep.
FetchErr ==
    /\ pc = "fetch"
    /\ retries > 0
    /\ attempts' = attempts + 1
    /\ retries' = retries - 1
    /\ UNCHANGED <<pc, i, state_update, contract_storage, acc, iter_order, bonsai_root,
                   pathfinder_root>>
    /\ UNCHANGED <<trievars, commitvars, lockvars>>

\* The loop is left with retries = 0: Err, and main's unwrap panics.
FetchExhausted ==
    /\ pc = "fetch"
    /\ retries = 0
    /\ pc' = "fetch_failed"
    /\ UNCHANGED <<i, retries, attempts, state_update, contract_storage, acc, iter_order,
                   bonsai_root, pathfinder_root>>
    /\ UNCHANGED <<trievars, commitvars, lockvars>>

\* The state update names the contract, with the diffs storage_updates:
\* save_storage_update.
SaveStorageUpdate(storage_updates) ==
    /\ pc = "got"
    /\ state_update' = Some(storage_updates)
    /\ contract_storage' = SavedStorage(contract_storage, storage_updates)
    /\ acc' = Merged(acc, storage_updates)
    /\ pc' = "bonsai"
    /\ retries' = 0
    /\ attempts' = 0
    /\ UNCHANGED <<i, iter_order, bonsai_root, pathfinder_root>>
    /\ UNCHANGED <<trievars, commitvars, lockvars>>

\* The state update does not name the contract: on to the next block.
SkipBlock ==
    /\ pc = "got"
    /\ i' = i + 1
    /\ pc' = "loop"
    /\ retries' = 0
    /\ attempts' = 0
    /\ UNCHANGED <<state_update, contract_storage, acc, iter_order, bonsai_root,
                   pathfinder_root>>
    /\ UNCHANGED <<trievars, commitvars, lockvars>>

\* bonsai_storage_root over the map, in the order its iterator yields.
BonsaiRoot ==
    /\ pc = "bonsai"
    /\ \E order \in Orders(DOMAIN contract_storage.val) :
         /\ iter_order' = order
         /\ bonsai_root' = BonsaiStorageRoot(contract_storage.val, order)
    /\ pc' = "pathfinder"
    /\ state_update' = None
    /\ UNCHANGED <<i, retries, attempts, contract_storage, acc, pathfinder_root>>
    /\ UNCHANGED <<trievars, commitvars, lockvars>>

\* pathfinder_storage_root over the same map, which iterates as before.
PathfinderRoot ==
    /\ pc = "pathfinder"
    /\ LET t == PathfinderSetAll(EmptyTree, contract_storage.val, iter_order)
       IN  \E norder \in Orders(DOMAIN TreeCommit(t).nodes) :
             \E early \in EarlySets(TreeCommit(t), EmptyStorage, norder) :
                LET r == PathfinderStorageRoot(contract_storage.val, iter_order, norder, early)
                IN  IF r.status = "ok"
                    THEN /\ pathfinder_root' = r.root
                         /\ pc' = "assert"
                    ELSE /\ pathfinder_root' = NoHash
                         /\ pc' = "commit_panic"
    /\ UNCHANGED <<i, retries, attempts, state_update, contract_storage, acc, iter_order,
                   bonsai_root>>
    /\ UNCHANGED <<trievars, commitvars, lockvars>>

\* assert_eq!(bonsai_storage_root, pathfinder_storage_root), and the next
\* block; the iteration's locals are dropped.
AssertEq ==
    /\ pc = "assert"
    /\ IF bonsai_root = pathfinder_root
       THEN /\ pc' = "loop"
            /\ i' = i + 1
            /\ iter_order' = << >>
            /\ bonsai_root' = NoHash
            /\ pathfinder_root' = NoHash
       ELSE /\ pc' = "assert_failed"
            /\ UNCHANGED <<i, iter_order, bonsai_root, pathfinder_root>>
    /\ UNCHANGED <<retries, attempts, state_update, contract_storage, acc>>
    /\ UNCHANGED <<trievars, commitvars, lockvars>>

Init ==
    /\ pc = "loop" /\ i = BlockStart /\ retries = 0 /\ attempts = 0
    /\ state_update = None /\ contract_storage = None /\ iter_order = << >>
    /\ bonsai_root = NoHash /\ pathfinder_root = NoHash /\ acc = None
    /\ TrieIdle /\ CommitIdle /\ LockIdle

Next ==
    \/ ForNext
    \/ FetchOk
    \/ FetchErr
    \/ FetchExhausted
    \/ \E storage_updates \in StorageDiffs : SaveStorageUpdate(storage_updates)
    \/ SkipBlock
    \/ BonsaiRoot
    \/ PathfinderRoot
    \/ AssertEq

Spec == Init /\ [][Next]_vars

\* The passes of the retry loop of get_state_update: a provider call
\* returns and the sleep between two passes ends.
FetchStep == FetchOk \/ FetchErr \/ FetchExhausted

FairSpec == Spec /\ WF_vars(FetchStep)

(***************************************************************************)
(* Lines 186-231 on any TrieUpdate of the type: the nodes of at most two   *)
(* hashes, their children given by hash or by index.                       *)
(***************************************************************************)
UpdateHashes == {BinaryHash(FeltHash(0), FeltHash(0)), BinaryHash(FeltHash(0), FeltHash(1)),
                 EdgeHash(FeltHash(0), <<0>>)}
UpdateChildren == {ChildHash(h) : h \in UpdateHashes} \cup {ChildId(0)}
UpdateNodes ==
    {[kind |-> "LeafBinary"], [kind |-> "LeafEdge", path |-> <<0>>]}
    \cup {[kind |-> "Binary", left |-> l, right |-> r] : l, r \in UpdateChildren}
    \cup {[kind |-> "Edge", child |-> c, path |-> <<0>>] : c \in UpdateChildren}
Updates ==
    UNION {{[nodes |-> f, root |-> r] : f \in [D -> UpdateNodes], r \in D} :
           D \in {E \in SUBSET UpdateHashes : Cardinality(E) \in {1, 2}}}

PersistAnUpdate ==
    /\ ncommits = 0
    /\ \E order \in Orders(DOMAIN update.nodes) :
         \E early \in EarlySets(update, storage, order) :
            LET r == PersistUpdate(update, storage, order, early)
            IN  /\ storage' = r.storage
                /\ result' = r.result
    /\ ncommits' = 1
    /\ UNCHANGED <<committed, update>>
    /\ UNCHANGED <<mainvars, trievars, lockvars>>

UpdateInit ==
    /\ MainIdle /\ TrieIdle /\ LockIdle
    /\ storage = EmptyStorage /\ result = NoResult /\ ncommits = 0 /\ committed = None
    /\ update \in Updates

UpdateNext == PersistAnUpdate

SpecUpdate == UpdateInit /\ [][UpdateNext]_vars

(***************************************************************************)
(* The three async functions called by concurrent tasks: two callers of    *)
(* save_storage_update, one of bonsai_storage_root and one of              *)
(* pathfinder_storage_root, each step of a call at a lock or at the map.   *)
(***************************************************************************)
MaxTaskBatch == 2
TaskDiff == [key : {0, 1}, value : {0, 1}]
TaskBatches == SeqsUpTo(TaskDiff, MaxTaskBatch)

lockframe == <<pc, i, retries, attempts, state_update, iter_order, bonsai_root,
               pathfinder_root, acc, trievars, commitvars>>

At(t, where) == task[t].pc = where
Goto(t, where) == [task EXCEPT ![t].pc = where]

\* CONTRACT_STORAGE.read(): the outer lock as a reader.
WriterOuterModeRead == "read"

\* CONTRACT_STORAGE.write(): the outer lock as the writer.
WriterOuterMode == "write"

\* Lines 100-105: storage_new is collected and the outer lock requested.
WriterStart(t, storage_updates) ==
    /\ At(t, "start")
    /\ task' = [task EXCEPT ![t].pc = "outer_wait", ![t].new = Collect(storage_updates)]
    /\ outer' = Enqueue(outer, t, WriterOuterMode)
    /\ UNCHANGED <<contract_storage, inner, applied>>

\* Line 105: write().await returns the guard.
WriterOuterGranted(t) ==
    /\ At(t, "outer_wait")
    /\ CanGrant(outer, t)
    /\ outer' = Grant(outer, t)
    /\ applied' = Append(applied, task[t].new)
    /\ task' = Goto(t, "match")
    /\ UNCHANGED <<contract_storage, inner>>

\* Line 107: match contract_storage.get(&contract_address); Some: the inner
\* lock is requested (line 109).
WriterMatch(t) ==
    /\ At(t, "match")
    /\ IF contract_storage.some
       THEN /\ inner' = Enqueue(inner, t, "write")
            /\ task' = Goto(t, "inner_wait")
       ELSE /\ task' = Goto(t, "insert")
            /\ UNCHANGED inner
    /\ UNCHANGED <<contract_storage, outer, applied>>

\* Line 109: storage_old.write().await returns the guard.
WriterInnerGranted(t) ==
    /\ At(t, "inner_wait")
    /\ CanGrant(inner, t)
    /\ inner' = Grant(inner, t)
    /\ task' = [task EXCEPT ![t].pc = "extend", ![t].pending = DOMAIN task[t].new]
    /\ UNCHANGED <<contract_storage, outer, applied>>

\* Line 109: extend(storage_new) inserts the entries one by one; after the
\* last one the inner guard is dropped.
WriterExtend(t) ==
    /\ At(t, "extend")
    /\ IF task[t].pending # {}
       THEN /\ \E k \in task[t].pending :
                 /\ contract_storage' = Some(MapPut(contract_storage.val, k, task[t].new[k]))
                 /\ task' = [task EXCEPT ![t].pending = @ \ {k}]
            /\ UNCHANGED inner
       ELSE /\ inner' = Release(inner, t)
            /\ task' = Goto(t, "end")
            /\ UNCHANGED contract_storage
    /\ UNCHANGED <<outer, applied>>

\* Line 112: contract_storage.insert(contract_address, RwLock::new(storage_new))
WriterInsert(t) ==
    /\ At(t, "insert")
    /\ contract_storage' = Some(task[t].new)
    /\ task' = Goto(t, "end")
    /\ UNCHANGED <<outer, inner, applied>>

\* Line 115: the function returns and the outer guard is dropped.
WriterReturn(t) ==
    /\ At(t, "end")
    /\ outer' = Release(outer, t)
    /\ task' = Goto(t, "done")
    /\ UNCHANGED <<contract_storage, inner, applied>>

WriterStep(t) ==
    \/ \E storage_updates \in TaskBatches : WriterStart(t, storage_updates)
    \/ WriterOuterGranted(t)
    \/ WriterMatch(t)
    \/ WriterInnerGranted(t)
    \/ WriterExtend(t)
    \/ WriterInsert(t)
    \/ WriterReturn(t)

\* Lines 124, 151: CONTRACT_STORAGE.read() is requested.
ReaderStart(t) ==
    /\ At(t, "start")
    /\ outer' = Enqueue(outer, t, "read")
    /\ task' = Goto(t, "outer_wait")
    /\ UNCHANGED <<contract_storage, inner, applied>>

\* Lines 124, 151: read().await returns the guard.
ReaderOuterGranted(t) ==
    /\ At(t, "outer_wait")
    /\ CanGrant(outer, t)
    /\ outer' = Grant(outer, t)
    /\ task' = Goto(t, "get")
    /\ UNCHANGED <<contract_storage, inner, applied>>

\* The panic of the unwrap leaves the outer guard behind.
ReaderGetKeepsGuard(t) ==
    /\ At(t, "get")
    /\ IF contract_storage.some
       THEN /\ inner' = Enqueue(inner, t, "read")
            /\ task' = Goto(t, "inner_wait")
       ELSE /\ task' = Goto(t, "panicked")
            /\ UNCHANGED inner
    /\ UNCHANGED <<contract_storage, outer, applied>>

\* Lines 125, 152: get(&contract_address).unwrap() panics when the contract
\* has no map (the outer guard is dropped as the task unwinds); lines 127,
\* 154: otherwise the inner lock is requested.
ReaderGet(t) ==
    /\ At(t, "get")
    /\ IF contract_storage.some
       THEN /\ inner' = Enqueue(inner, t, "read")
            /\ task' = Goto(t, "inner_wait")
            /\ UNCHANGED outer
       ELSE /\ outer' = Release(outer, t)
            /\ task' = Goto(t, "panicked")
            /\ UNCHANGED inner
    /\ UNCHANGED <<contract_storage, applied>>

\* Lines 127, 154: read().await returns the guard and the iteration begins.
ReaderInnerGranted(t) ==
    /\ At(t, "inner_wait")
    /\ CanGrant(inner, t)
    /\ inner' = Grant(inner, t)
    /\ task' = [task EXCEPT ![t].pc = "iter", ![t].pending = DOMAIN contract_storage.val]
    /\ UNCHANGED <<contract_storage, outer, applied>>

\* Lines 127-136, 154-166: the loop reads the entries one by one; after the
\* last one the inner guard is dropped.
ReaderIter(t) ==
    /\ At(t, "iter")
    /\ IF task[t].pending # {}
       THEN /\ \E k \in task[t].pending \cap DOMAIN contract_storage.val :
                 task' = [task EXCEPT ![t].pending = @ \ {k},
                                      ![t].seen = MapPut(@, k, contract_storage.val[k])]
            /\ UNCHANGED inner
       ELSE /\ inner' = Release(inner, t)
            /\ task' = Goto(t, "commit")
    /\ UNCHANGED <<contract_storage, outer, applied>>

\* Lines 138-145, 168-170: the root is computed and returned, and the outer
\* guard is dropped.
ReaderReturn(t) ==
    /\ At(t, "commit")
    /\ outer' = Release(outer, t)
    /\ task' = Goto(t, "done")
    /\ UNCHANGED <<contract_storage, inner, applied>>

ReaderStep(t) ==
    \/ ReaderStart(t)
    \/ ReaderOuterGranted(t)
    \/ ReaderGet(t)
    \/ ReaderInnerGranted(t)
    \/ ReaderIter(t)
    \/ ReaderReturn(t)

TaskStep(t) ==
    /\ \/ t \in Writers /\ WriterStep(t)
       \/ t \in Readers /\ ReaderStep(t)
    /\ UNCHANGED lockframe

LocksInit == MainIdle /\ TrieIdle /\ CommitIdle /\ LockIdle

LocksNext == \E t \in Tasks : TaskStep(t)

SpecLocks == LocksInit /\ [][LocksNext]_vars

\* Every task that can take a step takes one: the runtime polls it.
FairSpecLocks == SpecLocks /\ \A t \in Tasks : WF_vars(TaskStep(t))

(***************************************************************************)
(* The claims.                                                             *)
(***************************************************************************)

\* C1: whenever pathfinder_storage_root returns for the entries fed to both
\* engines, its root is the root bonsai_storage_root returns for them (so
\* the assert_eq of main holds).
C1_RootsAgree ==
    PathfinderRootOf(tree) # NoHash => PathfinderRootOf(tree) = BonsaiRootHash(bonsai)

\* Both engines hold at least two leaves and return the same root.
C1_Witness ==
    /\ Cardinality(DOMAIN tree.leaves) >= 2
    /\ Cardinality(DOMAIN bonsai) >= 2
    /\ PathfinderRootOf(tree) # NoHash
    /\ PathfinderRootOf(tree) = BonsaiRootHash(bonsai)

\* The root of the map m when its entries are inserted by ascending key.
RootAscending(m) == PathfinderRootOf(PathfinderSetAll(EmptyTree, m, Ascending(DOMAIN m)))
BonsaiRootAscending(m) == BonsaiStorageRoot(m, Ascending(DOMAIN m))

\* C2 as stated: entries with distinct keys, inserted in any order, give the
\* root that the same entries give in ascending order.
C2_OrderIndependent ==
    ~repeated =>
        /\ PathfinderRootOf(tree) = RootAscending(fed)
        /\ BonsaiRootHash(bonsai) = BonsaiRootAscending(fed)

\* C2 amended: entries with distinct keys below 2^Depth (no two keys share a
\* path), inserted in any order, give the root that the same entries give in
\* ascending order.
C2_OrderIndependentBelowDepth ==
    (~repeated /\ \A k \in DOMAIN fed : k < Pow2(Depth)) =>
        /\ PathfinderRootOf(tree) = RootAscending(fed)
        /\ BonsaiRootHash(bonsai) = BonsaiRootAscending(fed)

\* Three distinct keys below 2^Depth were inserted, the smallest one last.
C2_Witness ==
    /\ ~repeated
    /\ Cardinality(DOMAIN fed) = 3
    /\ \A k \in DOMAIN fed : k < Pow2(Depth) /\ last_key.val <= k
    /\ PathfinderRootOf(tree) = RootAscending(fed)

\* C3: a commit of the tree that was committed last returns the same root
\* and adds no entry to storage.nodes.
C3_RecommitIdempotent ==
    [][(ncommits' = ncommits + 1 /\ ncommits > 0 /\ committed = tree /\ result.status = "ok")
         => /\ result'.status = "ok"
            /\ result'.root = result.root
            /\ DOMAIN storage'.nodes = DOMAIN storage.nodes]_vars

\* C4: no two entries of storage.nodes hold the same hash.
C4_OneIndexPerHash ==
    \A x, y \in DOMAIN storage.nodes :
        storage.nodes[x].hash = storage.nodes[y].hash => x = y

\* C5: every entry of storage.nodes is still there, unchanged, after any
\* step (a commit only adds entries at indices that were absent).
C5_AppendOnly ==
    [][\A x \in DOMAIN storage.nodes :
          x \in DOMAIN storage'.nodes /\ storage'.nodes[x] = storage.nodes[x]]_vars

\* A second commit has returned and the storage holds the nodes of both.
C5_Witness ==
    /\ ncommits >= 2
    /\ result.status = "ok"
    /\ result.index >= 1
    /\ Cardinality(DOMAIN storage.nodes) >= 2

\* A child of the update that is given by a hash the update has no node for.
Unresolved(u) ==
    \E h \in DOMAIN u.nodes :
        LET n == u.nodes[h]
        IN  \/ n.kind = "Binary" /\ \E c \in {n.left, n.right} :
                                        c.ref = "Hash" /\ c.hash \notin DOMAIN u.nodes
            \/ n.kind = "Edge" /\ n.child.ref = "Hash" /\ n.child.hash \notin DOMAIN u.nodes

\* C6: persisting an update with an unresolved child reference returns the
\* error UnresolvedChildReference.
C6_UnresolvedChildIsAnError ==
    (ncommits > 0 /\ Unresolved(update)) =>
        (result.status = "error" /\ result.error = "UnresolvedChildReference")

\* C7: the commit of a tree without leaves returns the zero root.
C7_EmptyCommitReturnsZero ==
    (ncommits > 0 /\ committed = EmptyTree) =>
        (result.status = "ok" /\ result.root = ZeroHash)

\* C8: a set of the key that was set just before, with any value, leaves the
\* tree with the root it would have had the first of the two sets not been
\* made.
C8_OverwriteCorrect ==
    [][(nsets' = nsets + 1 /\ again')
         => PathfinderRootOf(tree')
              = PathfinderRootOf(PathfinderSetEntry(before, last_key'.val, fed'[last_key'.val]))]_vars

\* A key was set twice in a row, the second time to another value, in a
\* tree that holds other keys.
C8_Witness ==
    /\ again
    /\ before.leaves[KeyPath(last_key.val)] # tree.leaves[KeyPath(last_key.val)]
    /\ Cardinality(DOMAIN tree.leaves) >= 2

\* C9: a call of get_state_update makes at most Retries attempts; it has
\* returned Ok right after its first attempt that succeeded, and main makes
\* no attempt outside the call; it fails after exactly Retries failed
\* attempts, and main takes no step after that; every call ends.
C9_Attempts ==
    /\ attempts \in 0 .. Retries
    /\ pc = "fetch" => attempts = Retries - retries /\ retries >= 0
    /\ pc = "got" => attempts = (Retries - retries) + 1 /\ retries > 0
    /\ pc = "fetch_failed" => attempts = Retries /\ retries = 0

C9_Steps ==
    /\ pc # "fetch_failed"
    /\ pc # "fetch" => attempts' = attempts \/ attempts' = 0
    /\ (pc = "fetch" /\ attempts' = attempts + 1 /\ retries' = retries) => pc' = "got"
    /\ (pc = "fetch" /\ pc' = "fetch_failed") => attempts = Retries

C9_BoundedRetry ==
    /\ []C9_Attempts
    /\ [][C9_Steps]_vars
    /\ (pc = "fetch") ~> (pc \in {"got", "fetch_failed"})

\* The call failed after its attempts were used up.
C9_Witness == pc = "fetch_failed" /\ attempts = Retries /\ i > BlockStart

\* The value the last diff of key k in the batch writes.
LastWrite(diffs, k) ==
    diffs[CHOOSE j \in 1 .. Len(diffs) :
            /\ diffs[j].key = k
            /\ \A l \in (j + 1) .. Len(diffs) : diffs[l].key # k].value

BatchKeys(diffs) == {diffs[j].key : j \in 1 .. Len(diffs)}

\* C10: after save_storage_update every key of the batch maps to the value
\* of its last diff in the batch, and every other key to the value it had.
C10_LastWriteWins ==
    [][(pc = "got" /\ pc' = "bonsai")
         => LET diffs == state_update'.val
                old   == IF contract_storage.some THEN contract_storage.val ELSE EmptyMap
            IN  /\ contract_storage'.some
                /\ DOMAIN contract_storage'.val = (DOMAIN old) \cup BatchKeys(diffs)
                /\ \A k \in DOMAIN contract_storage'.val :
                      contract_storage'.val[k]
                        = IF k \in BatchKeys(diffs) THEN LastWrite(diffs, k) ELSE old[k]]_vars

\* A batch that writes one key twice, with different values, was merged into
\* a map that held another key before.
C10_Witness ==
    /\ pc = "bonsai"
    /\ state_update.some
    /\ \E j, l \in 1 .. Len(state_update.val) :
          /\ j < l
          /\ state_update.val[j].key = state_update.val[l].key
          /\ state_update.val[j].value # state_update.val[l].value
    /\ \E k \in DOMAIN contract_storage.val : k \notin BatchKeys(state_update.val)

\* The entries of the map f at the keys of S.
Restrict(f, S) == [x \in S \cap DOMAIN f |-> f[x]]

\* The path of every key, tabulated.
PathOf == [k \in FieldElement |-> KeyPath(k)]

\* What the tree, the bonsai storage and the persisted leaves resolve the
\* keys to.
Lookup(t, b, keys) ==
    [tree   |-> [k \in keys |-> TreeGet(t, PathOf[k])],
     bonsai |-> Restrict(b, {PathOf[k] : k \in keys}),
     leaves |-> Restrict(PersistLeaves(t.leaves, EmptyMap),
                         {BitsToInt(PathOf[k]) : k \in keys})]

\* Every key inserted so far resolves to a value in both engines.
AllResolve ==
    \A k \in DOMAIN fed :
       /\ TreeGet(tree, PathOf[k]).some
       /\ PathOf[k] \in DOMAIN bonsai

\* C11 as stated: after the insert of (k, v) every key inserted before,
\* other than k, resolves to the value it resolved to before the insert.
C11_InsertFrame ==
    [][nsets' = nsets + 1
         => LET others == (DOMAIN fed) \ {last_key'.val}
            IN  Lookup(tree', bonsai', others) = Lookup(tree, bonsai, others)]_vars

\* C11 amended: every key inserted so far resolves to a value in both
\* engines, and after the insert of (k, v) every key inserted before whose
\* path is not the path of k resolves to the value it resolved to before
\* the insert.
C11_InsertFrameOtherPaths ==
    /\ []AllResolve
    /\ [][nsets' = nsets + 1
            => LET others == {k \in DOMAIN fed : PathOf[k] # PathOf[last_key'.val]}
               IN  Lookup(tree', bonsai', others) = Lookup(tree, bonsai, others)]_vars

\* The last insert changed the value of a key that was there, in a tree
\* that holds another key, which resolves as before.
C11_Witness ==
    /\ last_key.some
    /\ TreeGet(before, KeyPath(last_key.val)).some
    /\ TreeGet(before, KeyPath(last_key.val)) # TreeGet(tree, KeyPath(last_key.val))
    /\ \E k \in DOMAIN fed :
          /\ KeyPath(k) # KeyPath(last_key.val)
          /\ TreeGet(tree, KeyPath(k)) = Some(fed[k])
          /\ TreeGet(before, KeyPath(k)) = Some(fed[k])

\* C12: the path of every key fed to the engines has exactly Depth bits;
\* its j-th bit is the bit of weight 2^(Depth - j) of the key (the bits
\* above are discarded, the others kept most significant first); distinct
\* keys below 2^Depth have distinct paths; and both engines hold a leaf at
\* the path of each key they were fed.
C12_PathEncoding ==
    /\ \A k \in DOMAIN fed :
          /\ Len(KeyPath(k)) = Depth
          /\ \A j \in 1 .. Depth : KeyPath(k)[j] = (k \div Pow2(Depth - j)) % 2
          /\ BitsToInt(KeyPath(k)) = k % Pow2(Depth)
    /\ \A k1, k2 \in DOMAIN fed :
          (k1 < Pow2(Depth) /\ k2 < Pow2(Depth) /\ k1 # k2) => KeyPath(k1) # KeyPath(k2)
    /\ DOMAIN tree.leaves = {KeyPath(k) : k \in DOMAIN fed}
    /\ DOMAIN bonsai = DOMAIN tree.leaves

\* Both engines were fed a key with a dropped bit set and a key that is not
\* its own mirror image, and hold their paths.
C12_Witness ==
    /\ Pow2(Depth) \in DOMAIN fed
    /\ \E k \in DOMAIN fed : KeyPath(k) # KeyPathLsb(k) /\ KeyPath(k) \in DOMAIN bonsai
    /\ DOMAIN bonsai = DOMAIN tree.leaves
    /\ Cardinality(DOMAIN tree.leaves) = 2

\* The child indices a stored node holds.
StoredChildren(node) ==
    CASE node.kind = "Binary" -> {node.left, node.right}
      [] node.kind = "Edge" -> {node.child}
      [] OTHER -> {}

\* Whether the stored index x stands for the child c of the update: a child
\* given by hash is stored as the index of an entry with that hash.
ChildKept(c, x, nodes) ==
    /\ x \in DOMAIN nodes
    /\ c.ref = "Hash" => nodes[x].hash = c.hash
    /\ c.ref = "Id" => x = c.idx

\* Whether stored is the update's node with its children resolved in nodes.
NodeKept(node, stored, nodes) ==
    CASE node.kind = "Binary" ->
            /\ stored.kind = "Binary"
            /\ ChildKept(node.left, stored.left, nodes)
            /\ ChildKept(node.right, stored.right, nodes)
      [] node.kind = "Edge" ->
            /\ stored.kind = "Edge"
            /\ ChildKept(node.child, stored.child, nodes)
      [] OTHER -> stored.kind = node.kind

\* C13: after a commit that returns, every child index of every stored node
\* is the index of a stored entry, and every node of the update is stored
\* with each child that was given by hash resolved to an entry that holds
\* that hash.
C13_ChildrenResolved ==
    [][(ncommits' = ncommits + 1 /\ result'.status = "ok")
         => /\ \A x \in DOMAIN storage'.nodes :
                  StoredChildren(storage'.nodes[x].node) \subseteq DOMAIN storage'.nodes
            /\ \A h \in DOMAIN TreeCommit(tree).nodes :
                  \E x \in (DOMAIN storage'.nodes) \ (DOMAIN storage.nodes) :
                     /\ storage'.nodes[x].hash = h
                     /\ NodeKept(TreeCommit(tree).nodes[h], storage'.nodes[x].node,
                                 storage'.nodes)]_vars

\* A second commit stored an edge node whose child is an entry of that
\* commit, with a hash other than that of the first entry.
C13_Witness ==
    /\ ncommits >= 2
    /\ result.status = "ok"
    /\ \E x \in DOMAIN storage.nodes :
          /\ storage.nodes[x].node.kind = "Edge"
          /\ storage.nodes[x].node.child >= 1
          /\ storage.nodes[storage.nodes[x].node.child].hash # storage.nodes[0].hash

\* C14: when commit_and_persist has returned (root, index), storage.nodes
\* has an entry at index, its hash is root, and root is the root of the
\* update of the committed tree.
C14_ReturnedRootStored ==
    result.status = "ok" =>
        /\ result.index \in DOMAIN storage.nodes
        /\ storage.nodes[result.index].hash = result.root
        /\ result.root = TreeCommit(committed).root

\* A second commit of a tree of several nodes returned; the entry at the
\* returned index holds the root and another entry of the commit does not.
C14_Witness ==
    /\ ncommits >= 2
    /\ result.status = "ok"
    /\ Cardinality(DOMAIN TreeCommit(committed).nodes) >= 2
    /\ storage.nodes[result.index].hash = result.root
    /\ \E x \in DOMAIN storage.nodes : x > result.index /\ storage.nodes[x].hash # result.root

C15_IndexSet == DOMAIN storage.nodes = 0 .. (Cardinality(DOMAIN storage.nodes) - 1)

C15_CommitStep ==
    (ncommits' = ncommits + 1 /\ result'.status = "ok") =>
        LET n   == Cardinality(DOMAIN storage.nodes)
            k   == Cardinality(DOMAIN TreeCommit(tree).nodes)
            new == (DOMAIN storage'.nodes) \ (DOMAIN storage.nodes)
        IN  /\ DOMAIN storage.nodes \subseteq DOMAIN storage'.nodes
            /\ new = n .. (n + k - 1)
            /\ {storage'.nodes[x].hash : x \in new} = DOMAIN TreeCommit(tree).nodes
            /\ \A x \in new, y \in DOMAIN storage.nodes : x > y

\* C15: the indices of storage.nodes are always 0 .. n-1; a commit keeps
\* the indices it finds and gives the hashes of its update one new index
\* each, from n on without a gap, so that every new index is greater than
\* every index stored before.
C15_IndicesMonotone == []C15_IndexSet /\ [][C15_CommitStep]_vars

\* Two commits have filled the storage, the second with several nodes.
C15_Witness ==
    /\ ncommits = 2
    /\ result.status = "ok"
    /\ Cardinality(DOMAIN TreeCommit(committed).nodes) >= 2
    /\ DOMAIN storage.nodes = 0 .. (MaxNodes - 1)

\* Whether the in-memory subtree at node is well formed with left bits to
\* consume: a binary node has two subtrees one bit below, an edge a nonempty
\* path and one subtree below it, and a leaf sits where no bit is left.
RECURSIVE ShapeOk(_, _)
ShapeOk(node, left) ==
    CASE node.kind = "Leaf" -> left = 0
      [] node.kind = "Binary" ->
            /\ left >= 1
            /\ ShapeOk(node.left, left - 1)
            /\ ShapeOk(node.right, left - 1)
      [] node.kind = "Edge" ->
            /\ Len(node.path) >= 1
            /\ Len(node.path) <= left
            /\ ShapeOk(node.child, left - Len(node.path))
      [] OTHER -> FALSE

\* The same for the stored subtree at index x of nodes.
RECURSIVE StoredShapeOk(_, _, _)
StoredShapeOk(nodes, x, left) ==
    /\ x \in DOMAIN nodes
    /\ LET node == nodes[x].node
       IN  CASE node.kind = "LeafBinary" -> left = 1
             [] node.kind = "LeafEdge" -> Len(node.path) >= 1 /\ Len(node.path) = left
             [] node.kind = "Binary" ->
                   /\ left >= 2
                   /\ StoredShapeOk(nodes, node.left, left - 1)
                   /\ StoredShapeOk(nodes, node.right, left - 1)
             [] node.kind = "Edge" ->
                   /\ Len(node.path) >= 1
                   /\ Len(node.path) < left
                   /\ StoredShapeOk(nodes, node.child, left - Len(node.path))
             [] OTHER -> FALSE

C16_Shapes ==
    /\ tree.root.kind # "None" => ShapeOk(tree.root, Depth)
    /\ result.status = "ok" => StoredShapeOk(storage.nodes, result.index, Depth)

C16_PersistStep ==
    (ncommits' = ncommits + 1 /\ result'.status = "ok") =>
        \A h \in DOMAIN TreeCommit(tree).nodes :
            \A x \in (DOMAIN storage'.nodes) \ (DOMAIN storage.nodes) :
                storage'.nodes[x].hash = h =>
                    LET node   == TreeCommit(tree).nodes[h]
                        stored == storage'.nodes[x].node
                    IN  /\ stored.kind = node.kind
                        /\ node.kind \in {"Edge", "LeafEdge"} => stored.path = node.path

\* C16: the tree in memory and the tree stored by a commit that returned
\* are well formed (two children below a binary node, a nonempty path and
\* one child at an edge, exactly Depth bits from the root to every leaf),
\* and a commit stores every node of its update with its kind and path.
C16_WellFormed == []C16_Shapes /\ [][C16_PersistStep]_vars

\* A commit stored a binary root above two edges to leaves.
C16_Witness ==
    /\ result.status = "ok"
    /\ storage.nodes[result.index].node.kind = "Binary"
    /\ storage.nodes[storage.nodes[result.index].node.left].node.kind = "LeafEdge"
    /\ Len(storage.nodes[storage.nodes[result.index].node.right].node.path) = Depth - 1

\* The map after the batches were applied one after another.
RECURSIVE Serial(_)
Serial(batches) ==
    IF batches = << >> THEN None
    ELSE LET prev == Serial(SubSeq(batches, 1, Len(batches) - 1))
             last == batches[Len(batches)]
         IN  IF prev.some
             THEN Some([k \in (DOMAIN prev.val) \cup (DOMAIN last) |->
                          IF k \in DOMAIN last THEN last[k] ELSE prev.val[k]])
             ELSE Some(last)

InSave(t) == task[t].pc \in {"match", "inner_wait", "extend", "insert", "end"}

\* C17: concurrent save_storage_update calls are serialized: at most one
\* is between taking and dropping the outer lock, and when none is, the
\* map is what the batches give applied one after another in the order
\* their writers took the lock (no batch lost, also when the contract was
\* absent); a root computation that holds the locks sees that map, whole,
\* and what it has read when it returns is the map after some of the
\* batches, each applied in full.
C17_Serialized ==
    /\ \A t, u \in Writers : (InSave(t) /\ InSave(u)) => t = u
    /\ (\A t \in Writers : ~InSave(t)) => contract_storage = Serial(applied)
    /\ \A t \in Readers :
          /\ task[t].pc \in {"iter", "commit"} =>
                /\ \A u \in Writers : ~InSave(u)
                /\ contract_storage = Serial(applied)
                /\ DOMAIN task[t].seen = (DOMAIN contract_storage.val) \ task[t].pending
                /\ \A k \in DOMAIN task[t].seen : task[t].seen[k] = contract_storage.val[k]
          /\ task[t].pc = "done" =>
                \E n \in 1 .. Len(applied) : Some(task[t].seen) = Serial(SubSeq(applied, 1, n))

\* Both writers are done, the second changed a value the first had written
\* and added a key, and a root computation that ran between them returned
\* the first one's map.
C17_Witness ==
    /\ \A t \in Writers : task[t].pc = "done"
    /\ Len(applied) = 2
    /\ \E k \in (DOMAIN applied[1]) \cap (DOMAIN applied[2]) : applied[1][k] # applied[2][k]
    /\ (DOMAIN applied[2]) \ (DOMAIN applied[1]) # {}
    /\ contract_storage = Serial(applied)
    /\ task["bonsai"].pc = "done"
    /\ task["bonsai"].seen = applied[1]

Waiting(t) == task[t].pc \in {"outer_wait", "inner_wait"}
Finished(t) == task[t].pc \in {"done", "panicked"}

\* The tasks that hold the lock or wait for it.
Users(lock) == {lock.w} \cup lock.r \cup {lock.q[j].task : j \in 1 .. Len(lock.q)}

LockOrder == \A t \in Tasks : t \in Users(inner) => t \in ({outer.w} \cup outer.r)

\* C18: a task holds the outer lock whenever it holds or requests the inner
\* one; every task that waits for a lock gets it, and every task finishes
\* (a root computation that finds no map for the contract finishes by the
\* panic of its unwrap).
C18_NoDeadlock ==
    /\ []LockOrder
    /\ \A t \in Tasks : Waiting(t) ~> ~Waiting(t)
    /\ <>(\A t \in Tasks : Finished(t))

\* A writer waits at the head of the outer lock's queue while a reader
\* holds the lock and reads under the inner lock, another task behind it.
C18_Witness ==
    /\ Len(outer.q) >= 2
    /\ Head(outer.q).mode = "write"
    /\ outer.r # {}
    /\ inner.r # {}

\* What main holds while it works on a block: the map is the merge of all
\* the diffs saved so far; the bonsai root, once computed, is that of an
\* empty bonsai storage filled with the map, and the pathfinder root that
\* of an empty tree filled with the map and committed into an empty storage.
C19_Accumulated ==
    /\ i \in BlockStart .. BlockEnd
    /\ contract_storage = acc
    /\ pc \in {"pathfinder", "assert"} =>
          /\ {iter_order[j] : j \in 1 .. Len(iter_order)} = DOMAIN acc.val
          /\ Len(iter_order) = Cardinality(DOMAIN acc.val)
          /\ bonsai_root = BonsaiRootHash(BonsaiInsertAll(EmptyMap, acc.val, iter_order))
    /\ pc = "assert" =>
          /\ pathfinder_root # NoHash
          /\ pathfinder_root = PathfinderRootOf(PathfinderSetAll(EmptyTree, acc.val, iter_order))

\* The order of main's steps: the block index never decreases and advances
\* by one when a block is done; a block without an entry for the contract
\* changes nothing and goes on to the next block; a block with an entry is
\* saved, then the bonsai root is computed, then the pathfinder root (whose
\* commit panics only on an empty map), then the two are compared; the map
\* changes at the save only.
C19_Order ==
    /\ i' = i \/ (i' = i + 1 /\ pc \in {"got", "assert"} /\ pc' = "loop")
    /\ (pc = "got" /\ pc' = "loop") =>
          /\ contract_storage' = contract_storage
          /\ bonsai_root' = NoHash /\ pathfinder_root' = NoHash
    /\ pc = "got" => pc' \in {"loop", "bonsai"}
    /\ pc = "bonsai" => pc' = "pathfinder"
    /\ pc = "pathfinder" => pc' \in {"assert", "commit_panic"}
    /\ (pc = "pathfinder" /\ pc' = "commit_panic") => DOMAIN acc.val = {}
    /\ pc' = "assert" => pc = "pathfinder"
    /\ pc # "got" => contract_storage' = contract_storage

\* The roots are computed only for a block that has diffs for the contract.
C19_DiffsOnly == (pc = "got" /\ pc' = "bonsai") => state_update'.val # << >>

\* C19 as stated: blocks are processed in increasing order, the two roots
\* of a block with diffs for the contract are computed from empty engines
\* over the merge of the diffs of all blocks so far, and a block without
\* diffs for the contract changes nothing and triggers no comparison.
C19_MainLoop == []C19_Accumulated /\ [][C19_Order /\ C19_DiffsOnly]_vars

\* C19 amended: the same, where the blocks that change nothing and trigger
\* no comparison are those whose state update has no entry for the
\* contract; a block whose entry is an empty list of diffs is treated as a
\* block with diffs.
C19_MainLoopEntries == []C19_Accumulated /\ [][C19_Order]_vars

\* The second block's roots are compared over a map of more keys than one
\* block can write.
C19_Witness ==
    /\ pc = "assert"
    /\ i = BlockStart + 1
    /\ Cardinality(DOMAIN contract_storage.val) > MaxBatch
    /\ bonsai_root = pathfinder_root
====
